---- MODULE Spec2Model ----
(***************************************************************************)
(* Rangefinder BLE peripheral (firmware/src): the range GATT service       *)
(* (range_service.c), the connection callbacks, the sensor polling thread  *)
(* and the battery thread (main.c), the battery curve (battery.c).         *)
(*                                                                         *)
(* Scheduling.  The sensor thread is created with K_PRIO_COOP(7)           *)
(* (main.c:214-217): a cooperative thread keeps the CPU until it blocks.   *)
(* It blocks in sensor_sample_fetch (I2C transfer), in bt_gatt_notify      *)
(* (buffer allocation) and in k_msleep.  The GATT and connection callbacks *)
(* run in the Bluetooth host's threads, so they run only while the sensor  *)
(* thread is blocked: see SensorBlocked.                                   *)
(***************************************************************************)
EXTENDS Integers, Sequences, FiniteSets, TLC

(***************************************************************************)
(* Program constants                                                       *)
(***************************************************************************)
SIZEOF_RANGE_CONFIG == 8
MIN_INTERVAL_MS == 10
MAX_INTERVAL_MS == 5000
DEFAULT_MAX_RANGE_MM == 1200
DEFAULT_MIN_RANGE_MM == 30
BT_GATT_CCC_NOTIFY == 1
BT_ATT_ERR_INVALID_OFFSET == 7
BT_ATT_ERR_INVALID_ATTRIBUTE_LEN == 13
BT_ATT_ERR_VALUE_NOT_ALLOWED == 19
UINT16_RANGE == 65536
BYTE_RANGE == 256
ADC_RESOLUTION == 12
DIVIDER_RATIO == 2
ADC_FULL_SCALE_MV == 3600
INT_MAX == 2147483647

(***************************************************************************)
(* Bounds of the model                                                     *)
(***************************************************************************)
\* Config writes are tried with every payload length up to MaxWriteLen and
\* every offset 0..MaxWriteOffset.
MaxWriteLen == 9
MaxWriteOffset == 1

\* Values a remote writer puts in the two interval fields: both sides of both
\* limits of the validation.
IntervalValues == {9, 10, 5000, 5001}
\* Values a remote writer puts in the two range fields.
RangeValues == {30, 100, 1200}

\* The ADC answers with the raw counts -MaxAdcOffset..1 and with every
\* multiple of AdcStride below full scale.
MaxAdcOffset == 2
AdcStride == 61
\* battery_mv_to_pct is called with every voltage within CurveMargin of 0 and
\* from CurveMargin below the lowest breakpoint of its table to CurveMargin
\* above the highest, and with the two ends of int.
CurveMargin == 20

\* Negative errno values the collaborators return on failure.
SensorErrors == {-5}
AdcErrors == {-5}
NotifyErrors == {-128}
AdvErrors == {-5}
\* HCI error codes of a failed connection.
ConnectErrors == {62}

(***************************************************************************)
(* struct range_config and its wire format                                 *)
(***************************************************************************)
RangeConfig(s, n, mx, mn) ==
    [sample_interval_ms |-> s, notify_interval_ms |-> n,
     max_range_mm |-> mx, min_range_mm |-> mn]

\* The bytes of a uint16_t in memory (little-endian target).
Le16Bytes(v) == << v % BYTE_RANGE, (v \div BYTE_RANGE) % BYTE_RANGE >>

\* The uint16_t at 1-based byte position i of a buffer.
Le16At(buf, i) == buf[i] + BYTE_RANGE * buf[i + 1]

\* The 8 bytes of a packed struct range_config, fields in declaration order.
ConfigBytes(c) ==
    Le16Bytes(c.sample_interval_ms) \o Le16Bytes(c.notify_interval_ms)
        \o Le16Bytes(c.max_range_mm) \o Le16Bytes(c.min_range_mm)

\* A struct range_config read through a pointer to 8 bytes.
ConfigFromBytesSwapped(buf) ==
    [sample_interval_ms |-> Le16At(buf, 1), notify_interval_ms |-> Le16At(buf, 3),
     max_range_mm |-> Le16At(buf, 7), min_range_mm |-> Le16At(buf, 5)]

ConfigFromBytes(buf) ==
    [sample_interval_ms |-> Le16At(buf, 1), notify_interval_ms |-> Le16At(buf, 3),
     max_range_mm |-> Le16At(buf, 5), min_range_mm |-> Le16At(buf, 7)]

BT_GATT_ERR(att_err) == -att_err

(***************************************************************************)
(* State                                                                   *)
(***************************************************************************)
VARIABLES
    active_config,          \* range_service.c: static struct range_config
    current_range_mm,       \* range_service.c: static uint16_t
    range_notify_enabled,   \* range_service.c: static bool
    current_conn,           \* main.c: static struct bt_conn * (0 is NULL)
    conn_refs,              \* references the application holds on the peer's bt_conn
    link_up,                \* transport: a peer is connected
    advertising,            \* transport: the device is discoverable
    adv_calls,              \* bt_le_adv_start calls made by the latest disconnected()
    adv_err,                \* what the latest bt_le_adv_start returned
    write_req,              \* the latest config write request: [buf, len, offset]
    write_ret,              \* what write_config returned for it
    write_log,              \* the log line write_config emitted for it
    prev_config,            \* active_config when that write_config was entered
    pc,                     \* sensor thread: its position in sensor_thread_fn
    distance,               \* sensor thread: int distance
    sleep_ms,               \* sensor thread: argument of the latest k_msleep
    tick_reads,             \* read_range_mm calls made in the current iteration
    tick_stored,            \* range_service_update was called in the current iteration
    tick_written,           \* a config write was accepted since the iteration began
    clamp_min,              \* cfg->min_range_mm as read by the clamp of this iteration
    clamp_max,              \* cfg->max_range_mm as read by the clamp of this iteration
    tick_gate,              \* range_notify_enabled as read by range_service_update
    tick_notifies,          \* bt_gatt_notify calls made in the current iteration
    notify_value,           \* the value carried by the latest bt_gatt_notify
    update_ret,             \* what the latest range_service_update returned
    clamp_interval,         \* cfg->sample_interval_ms as it stood at that clamp
    bat_pc,                 \* battery thread: its position in battery_thread_fn
    bat_mv,                 \* battery thread: int mv
    bat_forwards,           \* bt_bas_set_battery_level calls made in the current iteration
    bas_level,              \* the level given to the latest bt_bas_set_battery_level
    curve_mv,               \* battery_mv_to_pct: its argument
    curve_pct               \* battery_mv_to_pct: its result (-1 before the call)

vars == << active_config, current_range_mm, range_notify_enabled, current_conn,
           conn_refs, link_up, advertising, adv_calls, adv_err,
           write_req, write_ret, write_log, prev_config,
           pc, distance, sleep_ms, tick_reads, tick_stored, tick_written,
           clamp_min, clamp_max, tick_gate, tick_notifies, notify_value,
           update_ret, clamp_interval, bat_pc, bat_mv, bat_forwards, bas_level,
           curve_mv, curve_pct >>

gattVars == << active_config, write_req, write_ret, write_log, prev_config >>
connVars == << current_conn, conn_refs, link_up, advertising, adv_calls, adv_err >>
sensorVars == << current_range_mm, pc, distance, sleep_ms, tick_reads, tick_stored,
                 clamp_min, clamp_max, tick_gate, tick_notifies, notify_value,
                 update_ret, clamp_interval >>
batteryVars == << bat_pc, bat_mv, bat_forwards, bas_level >>
curveVars == << curve_mv, curve_pct >>

(***************************************************************************)
(* range_service.c: the config characteristic                              *)
(***************************************************************************)
\* The errors write_config returns before it looks at the payload's fields.
\* 0: the write is well-formed.
MalformedWriteOneCode(len, offset) ==
    IF offset + len > SIZEOF_RANGE_CONFIG \/ len # SIZEOF_RANGE_CONFIG
    THEN BT_GATT_ERR(BT_ATT_ERR_INVALID_OFFSET)
    ELSE 0

MalformedWrite(len, offset) ==
    IF offset + len > SIZEOF_RANGE_CONFIG
    THEN BT_GATT_ERR(BT_ATT_ERR_INVALID_OFFSET)
    ELSE IF len # SIZEOF_RANGE_CONFIG
         THEN BT_GATT_ERR(BT_ATT_ERR_INVALID_ATTRIBUTE_LEN)
         ELSE 0

SampleIntervalRejected(c) ==
    c.sample_interval_ms < MIN_INTERVAL_MS \/ c.sample_interval_ms > MAX_INTERVAL_MS

NotifyIntervalRejectedNoUpper(c) ==
    c.notify_interval_ms < MIN_INTERVAL_MS

NotifyIntervalRejected(c) ==
    c.notify_interval_ms < MIN_INTERVAL_MS \/ c.notify_interval_ms > MAX_INTERVAL_MS

RangeBoundsRejectedStrict(c) ==
    c.min_range_mm > c.max_range_mm

RangeBoundsRejected(c) ==
    c.min_range_mm >= c.max_range_mm

\* The payload is copied into active_config before it is validated.
write_config_CopyFirst(cfg, buf, len, offset) ==
    IF MalformedWrite(len, offset) # 0
    THEN [ret |-> MalformedWrite(len, offset), log |-> "", config |-> cfg]
    ELSE LET new_config == ConfigFromBytes(buf) IN
         IF SampleIntervalRejected(new_config)
         THEN [ret |-> BT_GATT_ERR(BT_ATT_ERR_VALUE_NOT_ALLOWED),
               log |-> "Rejected config: sample_interval_ms out of range",
               config |-> new_config]
         ELSE IF NotifyIntervalRejected(new_config)
         THEN [ret |-> BT_GATT_ERR(BT_ATT_ERR_VALUE_NOT_ALLOWED),
               log |-> "Rejected config: notify_interval_ms out of range",
               config |-> new_config]
         ELSE IF RangeBoundsRejected(new_config)
         THEN [ret |-> BT_GATT_ERR(BT_ATT_ERR_VALUE_NOT_ALLOWED),
               log |-> "Rejected config: min_range >= max_range",
               config |-> new_config]
         ELSE [ret |-> len, log |-> "Config updated", config |-> new_config]

\* write_config: the value returned, the line logged and the config stored,
\* for a write of len bytes buf at offset while cfg is stored.
write_config(cfg, buf, len, offset) ==
    IF MalformedWrite(len, offset) # 0
    THEN [ret |-> MalformedWrite(len, offset), log |-> "", config |-> cfg]
    ELSE LET new_config == ConfigFromBytes(buf) IN
         IF SampleIntervalRejected(new_config)
         THEN [ret |-> BT_GATT_ERR(BT_ATT_ERR_VALUE_NOT_ALLOWED),
               log |-> "Rejected config: sample_interval_ms out of range",
               config |-> cfg]
         ELSE IF NotifyIntervalRejected(new_config)
         THEN [ret |-> BT_GATT_ERR(BT_ATT_ERR_VALUE_NOT_ALLOWED),
               log |-> "Rejected config: notify_interval_ms out of range",
               config |-> cfg]
         ELSE IF RangeBoundsRejected(new_config)
         THEN [ret |-> BT_GATT_ERR(BT_ATT_ERR_VALUE_NOT_ALLOWED),
               log |-> "Rejected config: min_range >= max_range",
               config |-> cfg]
         ELSE [ret |-> len, log |-> "Config updated", config |-> new_config]

\* bt_gatt_attr_read as the read handlers use it: the bytes copied to the
\* reader's buffer of buf_len bytes, or the ATT error for an offset past the end.
AttrRead(buf_len, offset, value) ==
    IF offset > Len(value)
    THEN BT_GATT_ERR(BT_ATT_ERR_INVALID_OFFSET)
    ELSE LET n == IF buf_len < Len(value) - offset THEN buf_len
                  ELSE Len(value) - offset
         IN  SubSeq(value, offset + 1, offset + n)

read_config(buf_len, offset) == AttrRead(buf_len, offset, ConfigBytes(active_config))

read_range(buf_len, offset) == AttrRead(buf_len, offset, Le16Bytes(current_range_mm))

range_service_get_config == active_config

(***************************************************************************)
(* range_service.c: the range characteristic and its CCC                   *)
(***************************************************************************)
range_ccc_changed(value) == (value = BT_GATT_CCC_NOTIFY)

\* The bt_gatt_notify calls one range_service_update makes.
NotifyCallsUngated(enabled) == 1

NotifyCalls(enabled) == IF ~enabled THEN 0 ELSE 1

(***************************************************************************)
(* main.c: the sensor thread                                               *)
(***************************************************************************)
\* C's integer division, which truncates toward zero.
TruncDiv(a, b) == IF a >= 0 THEN a \div b ELSE -((-a) \div b)

\* What the sensor collaborator answers to one read: the return values of
\* sensor_sample_fetch and sensor_channel_get, and the struct sensor_value
\* (val1 metres, val2 millionths of a metre).
SensorAnswer(fetch_ret, get_ret, val1, val2) ==
    [fetch_ret |-> fetch_ret, get_ret |-> get_ret, val1 |-> val1, val2 |-> val2]

SensorAnswers ==
    {SensorAnswer(e, 0, 0, 0) : e \in SensorErrors}
        \cup {SensorAnswer(0, e, 0, 0) : e \in SensorErrors}
        \cup {SensorAnswer(0, 0, 0, 5000),       \* 5 mm
              SensorAnswer(0, 0, 0, 100900),     \* 100.9 mm
              SensorAnswer(0, 0, 1, 500000),     \* 1500 mm
              SensorAnswer(0, 0, 65, 636000)}    \* 65636 mm

read_range_mm(a) ==
    IF a.fetch_ret < 0 THEN a.fetch_ret
    ELSE IF a.get_ret < 0 THEN a.get_ret
    ELSE a.val1 * 1000 + TruncDiv(a.val2, 1000)

SampleAcceptedAny(d) == TRUE

SampleAccepted(d) == d >= 0

\* The conversion (uint16_t)distance.
ToUint16(d) == d % UINT16_RANGE

ClampToRangeNoUpper(clamped, min, max) ==
    IF clamped < min THEN min ELSE clamped

ClampToRange(clamped, min, max) ==
    LET low == IF clamped < min THEN min ELSE clamped
    IN  IF low > max THEN max ELSE low

\* The sensor thread is blocked, so the host's callbacks can run.
SensorBlocked == pc \in {"fetch", "notify", "sleeping"}

(***************************************************************************)
(* battery.c, and the battery thread of main.c                             *)
(***************************************************************************)
\* 1 << ADC_RESOLUTION
AdcCounts == 2 ^ ADC_RESOLUTION

\* What adc_read answers: its return value and the sample it left in
\* adc_buffer (an int16_t).
AdcAnswer(ret, raw) == [ret |-> ret, raw |-> raw]

AdcRaws ==
    {r \in (-MaxAdcOffset)..(AdcCounts - 1) : r <= 1 \/ r % AdcStride = 0}

AdcAnswers ==
    {AdcAnswer(e, 0) : e \in AdcErrors} \cup {AdcAnswer(0, r) : r \in AdcRaws}

\* The product stays below 2^31 for every int16_t sample.
battery_read_mv(a) ==
    IF a.ret < 0 THEN a.ret
    ELSE LET mv == IF a.raw < 0 THEN 0 ELSE a.raw
         IN  TruncDiv(mv * ADC_FULL_SCALE_MV * DIVIDER_RATIO, AdcCounts)

\* The conversion to the uint8_t a function returns.
ToUint8(v) == v % BYTE_RANGE

battery_mv_to_pct_uncapped(mv) ==
    IF mv >= 4100 THEN ToUint8(90 + TruncDiv((mv - 4100) * 10, 100))
    ELSE IF mv >= 3800 THEN ToUint8(50 + TruncDiv((mv - 3800) * 40, 300))
    ELSE IF mv >= 3600 THEN ToUint8(20 + TruncDiv((mv - 3600) * 30, 200))
    ELSE IF mv >= 3300 THEN ToUint8(TruncDiv((mv - 3300) * 20, 300))
    ELSE 0

battery_mv_to_pct(mv) ==
    IF mv >= 4200 THEN 100
    ELSE IF mv >= 4100 THEN ToUint8(90 + TruncDiv((mv - 4100) * 10, 100))
    ELSE IF mv >= 3800 THEN ToUint8(50 + TruncDiv((mv - 3800) * 40, 300))
    ELSE IF mv >= 3600 THEN ToUint8(20 + TruncDiv((mv - 3600) * 30, 200))
    ELSE IF mv >= 3300 THEN ToUint8(TruncDiv((mv - 3300) * 20, 300))
    ELSE 0

\* battery_thread_fn forwards a reading only if (mv > 0).
BatteryReadingUsableOrZero(mv) == mv >= 0

BatteryReadingUsable(mv) == mv > 0

\* The arguments battery_mv_to_pct is called with.
CurveInputs ==
    ((-CurveMargin)..CurveMargin)
        \cup ((3300 - CurveMargin)..(4200 + CurveMargin))
        \cup {-INT_MAX - 1, INT_MAX}

(***************************************************************************)
(* Inputs                                                                  *)
(***************************************************************************)
\* The records a remote writer sends as full 8-byte payloads: every pair of
\* intervals with the default range, every pair of range bounds with valid
\* intervals, and records that break an interval rule and the range rule at once.
Candidates ==
    {RangeConfig(s, n, DEFAULT_MAX_RANGE_MM, DEFAULT_MIN_RANGE_MM) :
        s \in IntervalValues, n \in IntervalValues}
        \cup {RangeConfig(MIN_INTERVAL_MS, MIN_INTERVAL_MS, mx, mn) :
                mx \in RangeValues, mn \in RangeValues}
        \cup {RangeConfig(s, n, mx, mx) :
                s \in {9, 10}, n \in {10, 5001}, mx \in {30}}

\* The payloads of the writes whose length or offset is wrong are cut from
\* (or padded after) this record, which also breaks every validation rule.
MalformedBase ==
    {RangeConfig(9, 5001, 30, 30)}

Payload(c, len) ==
    [i \in 1..len |-> IF i <= SIZEOF_RANGE_CONFIG THEN ConfigBytes(c)[i] ELSE 0]

WriteRequest(c, len, offset) == [buf |-> Payload(c, len), len |-> len, offset |-> offset]

\* 6 is the length of the short write of the spec's scenario.
WriteLens == 6..MaxWriteLen

WriteRequests ==
    {WriteRequest(c, SIZEOF_RANGE_CONFIG, 0) : c \in Candidates}
        \cup {WriteRequest(c, len, offset) :
                c \in MalformedBase, len \in WriteLens, offset \in 0..MaxWriteOffset}

NoWrite == [buf |-> << >>, len |-> -1, offset |-> 0]

\* The build's defaults for the two intervals (prj.conf) are any valid values.
DefaultConfigs ==
    {c \in Candidates :
        /\ ~SampleIntervalRejected(c)
        /\ ~NotifyIntervalRejected(c)
        /\ c.max_range_mm = DEFAULT_MAX_RANGE_MM
        /\ c.min_range_mm = DEFAULT_MIN_RANGE_MM}

(***************************************************************************)
(* Initial state: main() has returned 0 and both threads are created       *)
(***************************************************************************)
ServiceInit ==
    /\ active_config \in DefaultConfigs
    /\ current_range_mm = 0
    /\ range_notify_enabled = FALSE
    /\ current_conn = 0
    /\ conn_refs = 0
    /\ link_up = FALSE
    /\ advertising = TRUE
    /\ adv_calls = 0
    /\ adv_err = 0
    /\ write_req = NoWrite
    /\ write_ret = 0
    /\ write_log = ""
    /\ prev_config = active_config
    /\ pc = "top"
    /\ distance = 0
    /\ sleep_ms = 0
    /\ tick_reads = 0
    /\ tick_stored = FALSE
    /\ tick_written = FALSE
    /\ clamp_min = 0
    /\ clamp_max = 0
    /\ tick_gate = FALSE
    /\ tick_notifies = 0
    /\ notify_value = 0
    /\ update_ret = 0
    /\ clamp_interval = 0

BatteryInit ==
    /\ bat_pc = "read"
    /\ bat_mv = 0
    /\ bat_forwards = 0
    /\ bas_level = -1

Init ==
    /\ ServiceInit
    /\ BatteryInit
    /\ curve_mv = 0
    /\ curve_pct = -1

(***************************************************************************)
(* The host's callbacks                                                    *)
(***************************************************************************)
WriteConfig(req) ==
    /\ SensorBlocked
    /\ LET r == write_config(active_config, req.buf, req.len, req.offset)
       IN  /\ active_config' = r.config
           /\ write_ret' = r.ret
           /\ write_log' = r.log
           /\ tick_written' = (tick_written \/ r.ret = req.len)
    /\ write_req' = req
    /\ prev_config' = active_config
    /\ UNCHANGED << range_notify_enabled, connVars, sensorVars, batteryVars,
                    curveVars >>

\* A peer subscribes only while connected; the value is reset by an
\* unsubscribing peer or by the host.
CccChanged(value) ==
    /\ SensorBlocked
    /\ value # 0 => link_up
    /\ range_notify_enabled' = range_ccc_changed(value)
    /\ UNCHANGED << gattVars, connVars, sensorVars, tick_written, batteryVars,
                    curveVars >>

\* The reference is taken before err is looked at.
connectedRefFirst(err) ==
    /\ SensorBlocked
    /\ ~link_up
    /\ advertising
    /\ current_conn' = 1
    /\ conn_refs' = conn_refs + 1
    /\ IF err # 0
       THEN UNCHANGED << link_up, advertising >>
       ELSE /\ link_up' = TRUE
            /\ advertising' = FALSE
    /\ UNCHANGED << adv_calls, adv_err, range_notify_enabled, gattVars,
                    sensorVars, tick_written, batteryVars, curveVars >>

connected(err) ==
    /\ SensorBlocked
    /\ ~link_up
    /\ advertising
    /\ IF err # 0
       THEN UNCHANGED << current_conn, conn_refs, link_up, advertising >>
       ELSE /\ current_conn' = 1
            /\ conn_refs' = conn_refs + 1
            /\ link_up' = TRUE
            /\ advertising' = FALSE
    /\ UNCHANGED << adv_calls, adv_err, range_notify_enabled, gattVars,
                    sensorVars, tick_written, batteryVars, curveVars >>

\* adv_ret is what bt_le_adv_start returns.
disconnected(adv_ret) ==
    /\ SensorBlocked
    /\ link_up
    /\ link_up' = FALSE
    /\ IF current_conn # 0
       THEN conn_refs' = conn_refs - 1 /\ current_conn' = 0
       ELSE UNCHANGED << conn_refs, current_conn >>
    /\ adv_calls' = 1
    /\ adv_err' = adv_ret
    /\ advertising' = (adv_ret = 0)
    /\ UNCHANGED << range_notify_enabled, gattVars, sensorVars, tick_written,
                    batteryVars, curveVars >>

(***************************************************************************)
(* sensor_thread_fn, one action per stretch between two blocking calls     *)
(***************************************************************************)
\* The top of the loop: cfg = range_service_get_config() (a pointer to
\* active_config, nothing is copied), then read_range_mm is entered.
SensorLoopTop ==
    /\ pc = "top"
    /\ pc' = "fetch"
    /\ tick_written' = FALSE
    /\ UNCHANGED << current_range_mm, distance, sleep_ms, tick_reads, tick_stored,
                    clamp_min, clamp_max, tick_gate, tick_notifies, notify_value,
                    update_ret, clamp_interval, range_notify_enabled, gattVars,
                    connVars, batteryVars, curveVars >>

SensorRead(a) ==
    /\ pc = "fetch"
    /\ pc' = "clamp"
    /\ distance' = read_range_mm(a)
    /\ tick_reads' = tick_reads + 1
    /\ UNCHANGED << current_range_mm, sleep_ms, tick_stored, tick_written, clamp_min,
                    clamp_max, tick_gate, tick_notifies, notify_value, update_ret,
                    clamp_interval, range_notify_enabled, gattVars, connVars,
                    batteryVars, curveVars >>

\* The clamp and range_service_update up to its return or its bt_gatt_notify.
SensorUpdate ==
    /\ pc = "clamp"
    /\ IF SampleAccepted(distance)
       THEN LET cfg == range_service_get_config
                clamped == ClampToRange(ToUint16(distance), cfg.min_range_mm,
                                        cfg.max_range_mm)
                calls == NotifyCalls(range_notify_enabled)
            IN  /\ clamp_min' = cfg.min_range_mm
                /\ clamp_max' = cfg.max_range_mm
                /\ clamp_interval' = cfg.sample_interval_ms
                /\ current_range_mm' = clamped
                /\ tick_stored' = TRUE
                /\ tick_gate' = range_notify_enabled
                /\ tick_notifies' = tick_notifies + calls
                /\ notify_value' = IF calls > 0 THEN clamped ELSE notify_value
                /\ pc' = IF calls > 0 THEN "notify" ELSE "msleep"
       ELSE /\ pc' = "msleep"
            /\ UNCHANGED << current_range_mm, tick_stored, clamp_min, clamp_max,
                            clamp_interval, tick_gate, tick_notifies, notify_value >>
    /\ UNCHANGED << distance, sleep_ms, tick_reads, tick_written, update_ret,
                    range_notify_enabled, gattVars, connVars, batteryVars,
                    curveVars >>

\* A failed bt_gatt_notify is called again at once.
NotifyReturnRetry(err) ==
    /\ pc = "notify"
    /\ pc' = IF err < 0 THEN "notify" ELSE "msleep"
    /\ tick_notifies' = IF err < 0 THEN tick_notifies + 1 ELSE tick_notifies
    /\ update_ret' = err
    /\ UNCHANGED << current_range_mm, distance, sleep_ms, tick_reads, tick_stored,
                    tick_written, clamp_min, clamp_max, clamp_interval, tick_gate,
                    notify_value, range_notify_enabled, gattVars, connVars,
                    batteryVars, curveVars >>

\* bt_gatt_notify returns, and range_service_update returns its result.
NotifyReturn(err) ==
    /\ pc = "notify"
    /\ pc' = "msleep"
    /\ update_ret' = err
    /\ UNCHANGED << current_range_mm, distance, sleep_ms, tick_reads, tick_stored,
                    tick_written, clamp_min, clamp_max, clamp_interval, tick_gate,
                    tick_notifies, notify_value, range_notify_enabled, gattVars,
                    connVars, batteryVars, curveVars >>

\* The period is read before the loop and never again.
SensorSleepPeriodReadOnce ==
    /\ pc = "msleep"
    /\ pc' = "sleeping"
    /\ sleep_ms' = IF sleep_ms = 0 THEN range_service_get_config.sample_interval_ms
                   ELSE sleep_ms
    /\ distance' = 0
    /\ tick_reads' = 0
    /\ tick_stored' = FALSE
    /\ tick_written' = FALSE
    /\ clamp_min' = 0
    /\ clamp_max' = 0
    /\ clamp_interval' = 0
    /\ tick_gate' = FALSE
    /\ tick_notifies' = 0
    /\ notify_value' = 0
    /\ update_ret' = 0
    /\ UNCHANGED << current_range_mm, range_notify_enabled, gattVars, connVars,
                    batteryVars, curveVars >>

\* k_msleep(cfg->sample_interval_ms) is entered: the iteration's work is over,
\* and its locals and its history are dropped.
SensorSleep ==
    /\ pc = "msleep"
    /\ pc' = "sleeping"
    /\ sleep_ms' = range_service_get_config.sample_interval_ms
    /\ distance' = 0
    /\ tick_reads' = 0
    /\ tick_stored' = FALSE
    /\ tick_written' = FALSE
    /\ clamp_min' = 0
    /\ clamp_max' = 0
    /\ clamp_interval' = 0
    /\ tick_gate' = FALSE
    /\ tick_notifies' = 0
    /\ notify_value' = 0
    /\ update_ret' = 0
    /\ UNCHANGED << current_range_mm, range_notify_enabled, gattVars, connVars,
                    batteryVars, curveVars >>

SensorWake ==
    /\ pc = "sleeping"
    /\ pc' = "top"
    /\ UNCHANGED << current_range_mm, distance, sleep_ms, tick_reads, tick_stored,
                    tick_written, clamp_min, clamp_max, clamp_interval, tick_gate,
                    tick_notifies, notify_value, update_ret, range_notify_enabled,
                    gattVars, connVars, batteryVars, curveVars >>

SensorStep ==
    \/ SensorLoopTop
    \/ \E a \in SensorAnswers : SensorRead(a)
    \/ SensorUpdate
    \/ \E err \in {0} \cup NotifyErrors : NotifyReturn(err)
    \/ SensorSleep
    \/ SensorWake

HostStep ==
    \/ \E req \in WriteRequests : WriteConfig(req)
    \/ \E value \in 0..2 : CccChanged(value)
    \/ \E err \in {0} \cup ConnectErrors : connected(err)
    \/ \E adv_ret \in {0} \cup AdvErrors : disconnected(adv_ret)

Next == SensorStep \/ HostStep

Spec == Init /\ [][Next]_vars

(***************************************************************************)
(* battery_thread_fn, one action per stretch between two blocking calls.   *)
(* The thread shares no variable with the sensor thread or with the host's *)
(* callbacks, so its steps are interleaved with theirs freely.             *)
(***************************************************************************)
\* battery_read_mv: adc_read and the scaling of its sample.
BatteryRead(a) ==
    /\ bat_pc = "read"
    /\ bat_pc' = "level"
    /\ bat_mv' = battery_read_mv(a)
    /\ UNCHANGED << bat_forwards, bas_level, curveVars, range_notify_enabled,
                    tick_written, gattVars, connVars, sensorVars >>

\* if (mv > 0) bt_bas_set_battery_level(battery_mv_to_pct(mv)), then k_sleep
\* is entered.
BatteryLevel ==
    /\ bat_pc = "level"
    /\ bat_pc' = "sleeping"
    /\ IF BatteryReadingUsable(bat_mv)
       THEN /\ bas_level' = battery_mv_to_pct(bat_mv)
            /\ bat_forwards' = bat_forwards + 1
       ELSE UNCHANGED << bas_level, bat_forwards >>
    /\ UNCHANGED << bat_mv, curveVars, range_notify_enabled, tick_written,
                    gattVars, connVars, sensorVars >>

\* k_sleep returns: the next iteration begins, the history of the last one
\* is dropped.
BatteryWake ==
    /\ bat_pc = "sleeping"
    /\ bat_pc' = "read"
    /\ bat_mv' = 0
    /\ bat_forwards' = 0
    /\ UNCHANGED << bas_level, curveVars, range_notify_enabled, tick_written,
                    gattVars, connVars, sensorVars >>

BatteryStepWith(answers) ==
    \/ \E a \in answers : BatteryRead(a)
    \/ BatteryLevel
    \/ BatteryWake

BatteryStep == BatteryStepWith(AdcAnswers)

\* The battery thread alone.
BatterySpec == Init /\ [][BatteryStep]_vars

(***************************************************************************)
(* The whole program: both threads and the host's callbacks, with few      *)
(* inputs.  The kernel runs a ready thread, and every blocking call of the *)
(* two loops returns (the I2C transfer and the ADC conversion end, the     *)
(* timers expire), hence the fairness of the two threads.                  *)
(***************************************************************************)
\* An accepted change of the period, an accepted change of the window, a
\* write a validation rule rejects and a write of a wrong length.
SystemWriteRequests ==
    {WriteRequest(RangeConfig(MAX_INTERVAL_MS, MIN_INTERVAL_MS,
                              DEFAULT_MAX_RANGE_MM, DEFAULT_MIN_RANGE_MM),
                  SIZEOF_RANGE_CONFIG, 0),
     WriteRequest(RangeConfig(MIN_INTERVAL_MS, MIN_INTERVAL_MS, 100, 30),
                  SIZEOF_RANGE_CONFIG, 0),
     WriteRequest(RangeConfig(9, MIN_INTERVAL_MS, DEFAULT_MAX_RANGE_MM,
                              DEFAULT_MIN_RANGE_MM),
                  SIZEOF_RANGE_CONFIG, 0)}
        \cup {WriteRequest(c, 6, 0) : c \in MalformedBase}

\* A failed conversion, an empty sample and half of full scale (3600 mV).
SystemAdcAnswers ==
    {AdcAnswer(e, 0) : e \in AdcErrors}
        \cup {AdcAnswer(0, 0), AdcAnswer(0, AdcCounts \div 2)}

SystemHostStep ==
    \/ \E req \in SystemWriteRequests : WriteConfig(req)
    \/ \E value \in 0..2 : CccChanged(value)
    \/ \E err \in {0} \cup ConnectErrors : connected(err)
    \/ \E adv_ret \in {0} \cup AdvErrors : disconnected(adv_ret)

SystemBatteryStep == BatteryStepWith(SystemAdcAnswers)

SystemNext == SensorStep \/ SystemHostStep \/ SystemBatteryStep

SystemSpec ==
    /\ Init
    /\ [][SystemNext]_vars
    /\ WF_vars(SensorStep)
    /\ WF_vars(SystemBatteryStep)

(***************************************************************************)
(* battery_mv_to_pct called once with each argument of CurveInputs         *)
(***************************************************************************)
CurveInit ==
    /\ ServiceInit
    /\ BatteryInit
    /\ curve_mv \in CurveInputs
    /\ curve_pct = -1

CallBatteryMvToPct ==
    /\ curve_pct = -1
    /\ curve_pct' = battery_mv_to_pct(curve_mv)
    /\ UNCHANGED << curve_mv, batteryVars, range_notify_enabled, tick_written,
                    gattVars, connVars, sensorVars >>

CurveSpec == CurveInit /\ [][CallBatteryMvToPct]_vars

(***************************************************************************)
(* Properties of the config characteristic                                 *)
(***************************************************************************)
\* The validation rules as the specification states them.
ValidCandidate(c) ==
    /\ 10 <= c.sample_interval_ms /\ c.sample_interval_ms <= 5000
    /\ 10 <= c.notify_interval_ms /\ c.notify_interval_ms <= 5000
    /\ c.min_range_mm < c.max_range_mm

\* The latest write was the full 8-byte payload of c at offset 0.
FullWriteOf(c) ==
    /\ write_req.len = 8
    /\ write_req.offset = 0
    /\ write_req.buf = ConfigBytes(c)

\* C1: a valid candidate written as a full 8-byte payload at offset 0 is
\* accepted (write_config returns 8), and the config then returned by
\* range_service_get_config and by read_config is the candidate, field for field.
C1_ValidWriteIsStored ==
    \A c \in Candidates :
        (ValidCandidate(c) /\ FullWriteOf(c))
            => /\ write_ret = 8
               /\ range_service_get_config.sample_interval_ms = c.sample_interval_ms
               /\ range_service_get_config.notify_interval_ms = c.notify_interval_ms
               /\ range_service_get_config.max_range_mm = c.max_range_mm
               /\ range_service_get_config.min_range_mm = c.min_range_mm
               /\ read_config(8, 0) = write_req.buf

\* An accepted write replaced a different config by one with the largest
\* intervals and a non-default range.
C1_Witness ==
    /\ \E c \in Candidates :
        /\ FullWriteOf(c) /\ ValidCandidate(c)
        /\ c.max_range_mm = 100
        /\ active_config = c
    /\ write_ret = 8
    /\ prev_config # active_config
    /\ read_config(8, 0) = write_req.buf

\* C2: a full write of a candidate that breaks a validation rule is rejected
\* (a negative return value) and the stored config is, field for field, the
\* one stored before the call.
C2_InvalidWriteIsRejected ==
    \A c \in Candidates :
        (~ValidCandidate(c) /\ FullWriteOf(c))
            => /\ write_ret < 0
               /\ active_config.sample_interval_ms = prev_config.sample_interval_ms
               /\ active_config.notify_interval_ms = prev_config.notify_interval_ms
               /\ active_config.max_range_mm = prev_config.max_range_mm
               /\ active_config.min_range_mm = prev_config.min_range_mm

\* A write with min = max was rejected after an earlier write had replaced
\* the default range.
C2_Witness ==
    /\ \E c \in Candidates :
        /\ FullWriteOf(c)
        /\ ValidCandidate(RangeConfig(c.sample_interval_ms, c.notify_interval_ms, 1200, 30))
        /\ c.min_range_mm = c.max_range_mm
    /\ write_ret < 0
    /\ active_config = prev_config
    /\ active_config.max_range_mm # DEFAULT_MAX_RANGE_MM

\* The first rule, in the order of the checks, that a candidate breaks.
FirstViolatedRule(c) ==
    IF c.sample_interval_ms < 10 \/ c.sample_interval_ms > 5000
    THEN "SampleIntervalOutOfRange"
    ELSE IF c.notify_interval_ms < 10 \/ c.notify_interval_ms > 5000
    THEN "NotifyIntervalOutOfRange"
    ELSE IF c.min_range_mm >= c.max_range_mm
    THEN "RangeBoundsInverted"
    ELSE "None"

\* C3: the reason a rejected write reports to the writer identifies the first
\* rule the candidate breaks: a candidate whose first broken rule is another
\* one is given another reason.
C3_ReasonIdentifiesRule ==
    \A c, d \in Candidates :
        (/\ FullWriteOf(c)
         /\ FirstViolatedRule(c) # "None"
         /\ FirstViolatedRule(d) \notin {"None", FirstViolatedRule(c)})
            => write_config(active_config, ConfigBytes(d), 8, 0).ret # write_ret

\* C4 as stated: every write whose length is not 8 is given the one
\* malformed-length error, before validation, and changes nothing.
C4_OneMalformedLengthError ==
    (write_req.len \notin {-1, 8})
        => /\ write_ret = BT_GATT_ERR(BT_ATT_ERR_INVALID_ATTRIBUTE_LEN)
           /\ write_log = ""
           /\ active_config = prev_config

\* C4, amended: a write whose length is not 8 is rejected before any field is
\* validated (nothing is logged about a field), with the invalid-offset error
\* when offset + length exceeds 8 and the invalid-attribute-length error
\* otherwise; neither is the validation error, and the stored config is
\* unchanged.
C4_MalformedWriteIsRejected ==
    (write_req.len \notin {-1, 8})
        => /\ write_ret = IF write_req.offset + write_req.len > 8 THEN -7 ELSE -13
           /\ write_ret # -19
           /\ write_log = ""
           /\ active_config = prev_config

\* A 6-byte write at offset 0, cut from a record that breaks the rules, was
\* given the invalid-attribute-length error.
C4_Witness ==
    /\ write_req.len = 6
    /\ write_req.offset = 0
    /\ write_ret = -13
    /\ write_log = ""
    /\ active_config = prev_config

\* C5: in every reachable state the stored config satisfies the three rules.
C5_StoredConfigIsValid ==
    /\ 10 <= active_config.sample_interval_ms
    /\ active_config.sample_interval_ms <= 5000
    /\ 10 <= active_config.notify_interval_ms
    /\ active_config.notify_interval_ms <= 5000
    /\ active_config.min_range_mm < active_config.max_range_mm

\* A write was accepted, a later one rejected, and the sampler has stored a
\* sample in between or after.
C5_Witness ==
    /\ active_config \notin DefaultConfigs
    /\ write_ret = -19
    /\ tick_stored
    /\ current_range_mm # 0

(***************************************************************************)
(* Properties of the sensor thread                                         *)
(***************************************************************************)
\* The sensor thread has stored the sample of this iteration and has not yet
\* entered its sleep.
SampleStored == pc \in {"notify", "msleep"} /\ tick_stored

\* C6: the distance a sampling iteration stores lies within
\* [min_range_mm, max_range_mm] of the config its clamp read, whatever the raw
\* distance and whether or not a config write was accepted during the
\* iteration; that window is the one of the config stored when the value is
\* stored (seen where no callback can have run since: the gate was closed).
C6_StoredWithinWindow ==
    /\ SampleStored
        => /\ clamp_min <= current_range_mm
           /\ current_range_mm <= clamp_max
           /\ clamp_min < clamp_max
    /\ (pc = "msleep" /\ tick_stored /\ ~tick_gate)
        => /\ clamp_min = active_config.min_range_mm
           /\ clamp_max = active_config.max_range_mm

\* A write accepted while the thread was blocked in the sensor read lowered
\* max_range_mm to 100, and the raw 1500 mm was stored as 100.
C6_Witness ==
    /\ pc = "msleep"
    /\ tick_stored
    /\ tick_written
    /\ distance = 1500
    /\ prev_config.max_range_mm = 1200
    /\ active_config.max_range_mm = 100
    /\ clamp_max = 100
    /\ current_range_mm = 100

\* The nearest value to the raw distance d within [min, max].
NearestBound(d, min, max) == IF d < min THEN min ELSE IF d > max THEN max ELSE d

\* C7: for every non-negative raw distance the value stored is the nearest
\* bound of the window: min below it, max above it, the distance itself inside.
C7_StoresNearestBound ==
    (SampleStored /\ distance >= 0)
        => current_range_mm = NearestBound(distance, clamp_min, clamp_max)

\* C8: a successful sample is stored; range_service_update makes no
\* bt_gatt_notify call when it reads the gate closed and exactly one when it
\* reads it open, carrying the value just stored, whatever notify_interval_ms is.
C8_NotifyFollowsGate ==
    /\ (pc \in {"notify", "msleep"} /\ distance >= 0) => tick_stored
    /\ SampleStored
        => /\ tick_notifies = (IF tick_gate THEN 1 ELSE 0)
           /\ tick_gate => notify_value = current_range_mm
           /\ pc = "notify" => tick_gate

\* With the gate open and the largest notify interval stored, a sample was
\* stored and pushed once.
C8_Witness ==
    /\ pc = "notify"
    /\ tick_stored
    /\ tick_gate
    /\ tick_notifies = 1
    /\ notify_value = current_range_mm
    /\ current_range_mm = 1200
    /\ active_config.notify_interval_ms = 5000
    /\ ~tick_written

\* C9: a disconnect arriving while the gate is open closes the gate and issues
\* exactly one bt_le_adv_start.
C9_DisconnectClosesGate ==
    [][(link_up /\ ~link_up' /\ range_notify_enabled)
            => (~range_notify_enabled' /\ adv_calls' = 1)]_vars

\* C10: an iteration whose sensor read failed leaves current_range_mm as it
\* was, calls bt_gatt_notify not at all and read_range_mm once, and goes on to
\* its sleep, from which the next iteration starts; the thread is never stuck.
C10_FailedReadSkipsTick ==
    /\ []((pc = "clamp" /\ distance < 0) => tick_reads = 1 /\ tick_notifies = 0)
    /\ []((pc = "msleep" /\ distance < 0)
            => ~tick_stored /\ tick_reads = 1 /\ tick_notifies = 0)
    /\ [](ENABLED SensorStep)
    /\ [][(pc = "clamp" /\ distance < 0)
            => (pc' = "msleep" /\ current_range_mm' = current_range_mm
                /\ tick_notifies' = tick_notifies /\ tick_reads' = tick_reads)]_vars
    /\ [][(pc = "msleep" /\ distance < 0)
            => (pc' = "sleeping" /\ current_range_mm' = current_range_mm)]_vars
    /\ [][pc = "sleeping"
            => (pc' \in {"sleeping", "top"} /\ current_range_mm' = current_range_mm)]_vars
    /\ [][pc = "top" => pc' = "fetch"]_vars

\* With the gate open and an earlier sample stored, a failed read has led to
\* the sleep call with nothing stored and nothing pushed.
C10_Witness ==
    /\ pc = "msleep"
    /\ distance < 0
    /\ range_notify_enabled
    /\ current_range_mm = 1200
    /\ ~tick_stored
    /\ tick_notifies = 0
    /\ tick_reads = 1

(***************************************************************************)
(* Properties of the readers of the config                                 *)
(***************************************************************************)
\* C11: the three config fields one sensor iteration reads (min_range_mm and
\* max_range_mm at the clamp, sample_interval_ms at k_msleep) are the fields
\* of one stored record: either the sleep period is the sample_interval_ms of
\* the record the clamp read its window from, or that window is the window of
\* the record the sleep period is read from.
C11_TickReadsOneRecord ==
    [][(pc = "msleep" /\ pc' = "sleeping" /\ tick_stored) =>
          \/ sleep_ms' = clamp_interval
          \/ /\ clamp_min = active_config.min_range_mm
             /\ clamp_max = active_config.max_range_mm]_vars

(***************************************************************************)
(* Properties of the battery curve and of the battery thread               *)
(***************************************************************************)
\* C12: battery_mv_to_pct is monotonically non-decreasing (no smaller
\* argument gives a larger result, across the breakpoints 3300, 3600, 3800,
\* 4100 and 4200 too), its result lies in 0..100, and it is 0 for every
\* negative argument.
C12_CurveMonotoneBounded ==
    curve_pct # -1 =>
        /\ curve_pct \in 0..100
        /\ curve_mv < 0 => curve_pct = 0
        /\ \A m \in CurveInputs :
              m <= curve_mv => battery_mv_to_pct(m) <= curve_pct

\* The curve was evaluated at a breakpoint, one step above the end of the
\* segment below it.
C12_Witness ==
    /\ curve_mv = 3800
    /\ curve_pct = 50
    /\ battery_mv_to_pct(3799) = 49

\* C13: battery_mv_to_pct gives the points its header documents:
\* 100 at 4200 mV, 50 at 3700 mV and 0 at 3300 mV.
C13_DocumentedPoints ==
    curve_pct # -1 =>
        /\ curve_mv = 4200 => curve_pct = 100
        /\ curve_mv = 3700 => curve_pct = 50
        /\ curve_mv = 3300 => curve_pct = 0

\* C14: in each iteration of the battery thread, a failed read (negative) or
\* a non-positive voltage forwards nothing to the Battery Service and leaves
\* its level as it was; any other reading forwards battery_mv_to_pct(mv),
\* exactly once; every level ever forwarded lies in 0..100.
C14_BatteryForwardsUsableReadings ==
    /\ [](bas_level = -1 \/ bas_level \in 0..100)
    /\ [](bat_pc # "sleeping" => bat_forwards = 0)
    /\ []((bat_pc = "sleeping" /\ bat_mv <= 0) => bat_forwards = 0)
    /\ []((bat_pc = "sleeping" /\ bat_mv > 0) =>
             (bat_forwards = 1 /\ bas_level = battery_mv_to_pct(bat_mv)))
    /\ [][(bat_pc = "level" /\ bat_mv <= 0) => bas_level' = bas_level]_vars

\* A failed read after a full battery was forwarded: the level stays.
C14_Witness ==
    /\ bat_pc = "sleeping"
    /\ bat_mv < 0
    /\ bat_forwards = 0
    /\ bas_level = 100

(***************************************************************************)
(* Properties of the stored reading and of the sampling period             *)
(***************************************************************************)
\* C15: in every state the distance the range read handler returns lies
\* within [min_range_mm, max_range_mm] of the stored config, before the
\* first successful sample and right after an accepted config write too.
C15_ReadWithinStoredWindow ==
    LET mm == Le16At(read_range(2, 0), 1)
    IN  /\ active_config.min_range_mm <= mm
        /\ mm <= active_config.max_range_mm

\* C16: each k_msleep of the sensor thread is given the sample_interval_ms of
\* the config stored when it is entered; the sleep in progress keeps its
\* period until it ends, and it has the stored period unless a write was
\* accepted since it began, so at most that one sleep still has an old period.
C16_SleepUsesStoredPeriod ==
    /\ [][(pc = "msleep" /\ pc' = "sleeping")
             => sleep_ms' = active_config.sample_interval_ms]_vars
    /\ [][(pc = "sleeping" /\ pc' = "sleeping") => sleep_ms' = sleep_ms]_vars
    /\ []((pc = "sleeping" /\ ~tick_written)
             => sleep_ms = active_config.sample_interval_ms)

\* After a stored sample the period was changed from 5000 to 10 by an
\* accepted write, and the sleep now entered has the new period.
C16_Witness ==
    /\ pc = "sleeping"
    /\ ~tick_written
    /\ current_range_mm # 0
    /\ write_ret = 8
    /\ prev_config.sample_interval_ms = 5000
    /\ active_config.sample_interval_ms = 10
    /\ sleep_ms = 10

(***************************************************************************)
(* Properties of the notification push                                     *)
(***************************************************************************)
\* C17: an iteration of the sensor thread calls bt_gatt_notify at most once,
\* failed or not.  After a failed push the value the iteration stored stays,
\* the thread's next step enters k_msleep with the stored period, and the
\* thread then reaches the read of the next iteration; every iteration that
\* stores a sample pushes it once if the gate is open, whatever happened to
\* the push before it.
C17_FailedPushIsNotRetried ==
    /\ [](tick_notifies <= 1)
    /\ []((pc = "msleep" /\ update_ret < 0)
             => (tick_stored /\ tick_notifies = 1
                 /\ current_range_mm = notify_value))
    /\ [][(pc = "msleep" /\ update_ret < 0 /\ pc' # pc)
             => /\ pc' = "sleeping"
                /\ sleep_ms' = active_config.sample_interval_ms
                /\ current_range_mm' = current_range_mm]_vars
    /\ (pc = "msleep" /\ update_ret < 0) ~> (pc = "fetch")
    /\ []((pc \in {"notify", "msleep"} /\ tick_stored)
             => /\ tick_notifies = IF tick_gate THEN 1 ELSE 0
                /\ tick_gate => notify_value = current_range_mm)

\* bt_gatt_notify has failed for the sample this iteration stored.
C17_Witness ==
    /\ pc = "msleep"
    /\ update_ret < 0
    /\ tick_stored
    /\ tick_notifies = 1
    /\ notify_value = current_range_mm

(***************************************************************************)
(* Frame conditions                                                        *)
(***************************************************************************)
\* C18: current_range_mm changes only in a step of the sensor thread (its
\* range_service_update); range_notify_enabled changes only in a callback of
\* the host that is not a config write, never in a step of the sensor
\* thread; active_config changes only in a config write that is accepted,
\* and becomes the record written; a step of the battery thread and a
\* rejected config write leave all three as they were.
C18_FrameConditions ==
    /\ [][current_range_mm' # current_range_mm
             => (pc = "clamp" /\ pc' # pc)]_vars
    /\ [][range_notify_enabled' # range_notify_enabled
             => (SensorBlocked /\ pc' = pc /\ bat_pc' = bat_pc
                 /\ UNCHANGED gattVars)]_vars
    /\ [][pc' # pc => UNCHANGED << range_notify_enabled, active_config >>]_vars
    /\ [][active_config' # active_config
             => /\ write_ret' = SIZEOF_RANGE_CONFIG
                /\ write_log' = "Config updated"
                /\ active_config' = ConfigFromBytes(write_req'.buf)
                /\ prev_config' = active_config]_vars
    /\ [][bat_pc' # bat_pc
             => UNCHANGED << current_range_mm, range_notify_enabled,
                             active_config >>]_vars
    /\ [][(write_ret' < 0
           /\ << write_req, write_ret, write_log, prev_config >>'
                 # << write_req, write_ret, write_log, prev_config >>)
             => UNCHANGED << current_range_mm, range_notify_enabled,
                             active_config >>]_vars

\* A write was rejected by a validation rule while a sample is stored, the
\* gate is open and a battery level was forwarded.
C18_Witness ==
    /\ write_req.len = SIZEOF_RANGE_CONFIG
    /\ write_ret = BT_GATT_ERR(BT_ATT_ERR_VALUE_NOT_ALLOWED)
    /\ active_config = prev_config
    /\ current_range_mm # 0
    /\ range_notify_enabled
    /\ bas_level # -1

C20_NoNotifyWhileDisconnected ==
    [][(pc = "clamp" /\ pc' = "notify") => link_up]_vars
====
